---- MODULE Spec2Model ----
(***************************************************************************)
(* A model of the multibot Mattermost adapter (pkg/bothandler/mattermost.go) *)
(* and of the one-shot send path of cmd sendmsg: the receive loop           *)
(* ProcessMessages, Close, the dispatcher handleWebSocketEvent with its     *)
(* five handler stages, sendReply, and ChannelMessageSend.                  *)
(*                                                                         *)
(* Strings that the code inspects (message texts, command words) are       *)
(* sequences of one-character strings, so that equality, SplitN and the    *)
(* map lookups are computed as the code computes them.  The empty string   *)
(* is << >>.  Identifiers the code only compares (channel ids, user ids,   *)
(* post ids) are TLA+ strings, "" being Go's empty string.                 *)
(***************************************************************************)
EXTENDS Integers, Sequences, FiniteSets, TLC

\* ------------------------------------------------------------------ bounds
\* Longest inbound message text, in characters.
MaxLen == 3
\* Most handlers registered in each ordered handler sequence.
MaxHandlers == 2
\* Most file attachments on one inbound post.
MaxFiles == 2
\* Most ReadJSON calls on an open connection that return in one run.
MaxReads == 3
\* Most Close() calls made on the adapter in one run.
MaxCloseCalls == 2
\* Most ReadJSON calls that return during one run of sendmsg.
MaxCmdReads == 1

\* ------------------------------------------------------------ string model
Chars == {"a", " "}

Texts == UNION {[1..n -> Chars] : n \in 0..MaxLen}

Dig == <<"1", "2", "3", "4", "5">>

\* strings.Index(s, " ") + 1: the position of the first space, 0 when none.
RECURSIVE IndexFrom(_, _)
IndexFrom(s, i) ==
  IF i > Len(s) THEN 0
  ELSE IF s[i] = " " THEN i
  ELSE IndexFrom(s, i + 1)

\* strings.Split(content, " ") cut to its first two parts: what a split on
\* every space would give.
SplitEverySpace(content) ==
  LET i == IndexFrom(content, 1) IN
  IF i = 0 THEN <<content>>
  ELSE LET rest == SubSeq(content, i + 1, Len(content))
           j == IndexFrom(rest, 1)
       IN <<SubSeq(content, 1, i - 1), IF j = 0 THEN rest ELSE SubSeq(rest, 1, j - 1)>>

\* strings.SplitN(content, " ", 2)
SplitN2(content) ==
  LET i == IndexFrom(content, 1) IN
  IF i = 0 THEN <<content>>
  ELSE <<SubSeq(content, 1, i - 1), SubSeq(content, i + 1, Len(content))>>

\* ---------------------------------------------------------- inbound events
BotId == "bot"

UserIds == {BotId, "u1"}

ChannelIds == {"town", "dev"}

RootIds == {"", "t0"}

FileNames == <<"f1", "f2", "f3", "f4">>

FileLists == {SubSeq(FileNames, 1, n) : n \in 0..MaxFiles}

\* A decoded "posted" event: MattermostWebSocketEvent with Data["post"] a JSON
\* string that unmarshals into a MattermostPost.
Posts ==
  [Event : {"posted"}, Data : {"post"}, Id : {"p1"}, ChannelId : ChannelIds,
   UserId : UserIds, Message : Texts, FileIds : FileLists, RootId : RootIds]

\* Events that handleWebSocketEvent drops before reading a post: another event
\* type, no "post" entry, a "post" entry that is not a string, a "post" string
\* that is not the JSON of a post.  Their post fields are never read.
Dropped ==
  [Event : {"typing"}, Data : {"post"}, Id : {"p1"}, ChannelId : {"town"},
   UserId : {"u1"}, Message : {<<"a">>}, FileIds : {<<"f1">>}, RootId : {""}]
  \cup
  [Event : {"posted"}, Data : {"missing", "notstring", "badjson"}, Id : {"p1"},
   ChannelId : {"town"}, UserId : {"u1"}, Message : {<<"a">>},
   FileIds : {<<"f1">>}, RootId : {""}]

AllEvents == Posts \cup Dropped

\* The events the receive loop is fed in the life-cycle specification.
LoopEvents ==
  {e \in AllEvents :
     /\ e.ChannelId = "town"
     /\ e.RootId = ""
     /\ e.Message \in {<<"a">>, <<"a", " ", "a">>}
     /\ Len(e.FileIds) = 1}

NoEvent ==
  [Event |-> "", Data |-> "", Id |-> "", ChannelId |-> "", UserId |-> "",
   Message |-> << >>, FileIds |-> << >>, RootId |-> ""]

\* ------------------------------------------------------- handler registries
\* Handlers: exact text -> func() string.  The zero-argument handlers are
\* modelled by the string they return.
Handlers == (<<"a">> :> << >>) @@ (<<"a", " ", "a">> :> <<"e">>)

\* MsgInputHandlers: command word -> func(Request) string.
MsgInputKeys == {<<"a">>}

\* The command handler registered for `command`, applied to the remainder.
MsgInputHandler(command, text) ==
  IF text = << >> THEN << >> ELSE <<"m">> \o text

\* CatchallHandlers[i](Request{text, ...})
CatchallHandler(i, text) ==
  IF Len(text) >= i /\ text[i] = "a" THEN <<"c", Dig[i]>> ELSE << >>

\* CatchallExtendedHandlers[i](ExtendedMessage{Text: text}): nil, or a message
\* with a text and an optional image.
CatchallExtendedHandler(i, text) ==
  IF Len(text) < i THEN [nil |-> TRUE, Text |-> << >>, Image |-> FALSE]
  ELSE IF text[i] = "a"
    THEN [nil |-> FALSE, Text |-> <<"x", Dig[i]>>, Image |-> FALSE]
    ELSE [nil |-> FALSE,
          Text |-> IF i = Len(text) THEN << >> ELSE <<"x", Dig[i]>>,
          Image |-> (i % 2 = 1)]

\* fmt.Sprintf("tmp/%s", fileId)
Filename(fileId) == <<"tmp/", fileId>>

\* ImageHandlers[i](filename, Request{text, ...})
ImageHandler(i, filename, text) ==
  IF Len(text) >= i /\ text[i] = "a" THEN <<"i", Dig[i], filename[2]>> ELSE << >>

\* The registrations made at start-up: how many handlers each ordered sequence
\* holds.  The stages do not read one another's sequences, so the lengths are
\* varied together and one at a time, the other two sequences being full.
Registrations ==
  {r \in [catchall : 0..MaxHandlers, extended : 0..MaxHandlers, image : 0..MaxHandlers] :
     \/ r.catchall = r.extended /\ r.extended = r.image
     \/ r.extended = MaxHandlers /\ r.image = MaxHandlers
     \/ r.catchall = MaxHandlers /\ r.image = MaxHandlers
     \/ r.catchall = MaxHandlers /\ r.extended = MaxHandlers}

FullRegistration ==
  [catchall |-> MaxHandlers, extended |-> MaxHandlers, image |-> MaxHandlers]

\* ------------------------------------------------------------------- state
VARIABLES
  build,          \* which of the two definitions of the adapter is compiled
  stopChan,       \* s.stopChan: "open" or "closed" (never nil once constructed)
  WebSocketConn,  \* s.WebSocketConn: "nil" or "conn"
  connState,      \* the connection itself: "none", "open", "closed"
  pmPc,           \* where ProcessMessages is
  readLog,        \* what each returned ReadJSON call gave
  closePc,        \* where the caller of Close() is
  closeCalls,     \* Close() calls begun
  closeReturn,    \* where the loop stood when the first Close() returned
  panicked,       \* the process died of a run-time panic
  cur,            \* the event handleWebSocketEvent is dispatching
  stage,          \* where handleWebSocketEvent is
  invoked,        \* handler invocations made for cur, in order
  replies,        \* sendReply calls made for cur, in order
  sendFailed,     \* some sendReply for cur failed (logged only)
  firstFailed,    \* which reply for cur failed first, 0 when none
  downloads,      \* the outcome of each downloadFile call made for cur
  reg,            \* the handler registrations
  DefaultChannel, \* each adapter's DefaultChannel
  MessagePlatforms, \* the platform registry, in registration order
  lastSend,       \* the last adapter ChannelMessageSend call and its result
  lastBroadcast,  \* the last registry ChannelMessageSend call and its result
  entry,          \* the program run: "bot" (main.go), "sendmsg", or "none"
  cmdPc,          \* where that program's main goroutine is
  args,           \* sendmsg's arguments: their number, platform and channel
  env,            \* the platforms whose credentials the environment holds
  calls           \* registry writes, loop starts and Close() calls, in order

adapterVars == <<build, stopChan, WebSocketConn, connState, panicked>>
loopVars == <<pmPc, readLog>>
closeVars == <<closePc, closeCalls, closeReturn>>
dispatchVars == <<cur, stage, invoked, replies, sendFailed, firstFailed, downloads, reg>>
cmdVars == <<entry, cmdPc, args, env, calls>>
sendVars == <<DefaultChannel, MessagePlatforms, lastSend, lastBroadcast, cmdVars>>
vars == <<adapterVars, loopVars, closeVars, dispatchVars, sendVars>>

Builds == {"http", "client4"}

\* The platforms sendmsg knows, in the order it constructs and registers them.
Platforms == <<"discord", "slack", "telegram", "mattermost", "irc">>

NoSend ==
  [called |-> FALSE, via |-> "", override |-> "", channel |-> "", dflt |-> "",
   err |-> "", posts |-> << >>]

NoBroadcast ==
  [called |-> FALSE, channel |-> "", nets |-> << >>, attempted |-> << >>,
   failed |-> << >>, err |-> ""]

PlatformNames == {Platforms[i] : i \in DOMAIN Platforms}

\* The adapter whose receive loop is modelled listens with DefaultChannel "dev".
LoopDefaults == [p \in PlatformNames |-> IF p = "mattermost" THEN "dev" ELSE ""]

\* Close() has not returned yet.
NoReturn == [returned |-> FALSE, events |-> 0, pm |-> ""]

\* ----------------------------------------------------------- construction
\* NewMessagePlatformFromMattermost succeeded: stopChan is made, no connection
\* yet, DefaultChannel "" until the caller sets it.
Constructed ==
  /\ build \in Builds
  /\ stopChan = "open"
  /\ WebSocketConn = "nil"
  /\ connState = "none"
  /\ panicked = FALSE
  /\ closePc = "idle"
  /\ closeCalls = 0
  /\ closeReturn = NoReturn
  /\ lastSend = NoSend
  /\ lastBroadcast = NoBroadcast

Idle ==
  /\ cur = NoEvent
  /\ stage = "none"
  /\ invoked = << >>
  /\ replies = << >>
  /\ sendFailed = FALSE
  /\ firstFailed = 0
  /\ downloads = << >>

NoArgs == [n |-> 0, platform |-> "", channel |-> ""]

\* No program run is modelled: the adapter is driven directly.
NoCommand ==
  /\ entry = "none"
  /\ cmdPc = "none"
  /\ args = NoArgs
  /\ env = {}
  /\ calls = << >>

Init ==
  /\ Constructed
  /\ Idle
  /\ NoCommand
  /\ pmPc = "idle"
  /\ readLog = << >>
  /\ reg = FullRegistration
  /\ DefaultChannel = LoopDefaults
  /\ MessagePlatforms = <<"mattermost">>

\* --------------------------------------------------------- ProcessMessages
\* go s.ProcessMessages()
StartProcessMessages ==
  /\ ~panicked
  /\ pmPc = "idle"
  /\ pmPc' = "dial"
  /\ UNCHANGED <<adapterVars, readLog, closeVars, dispatchVars, sendVars>>

\* conn, _, err := dialer.Dial(wsURL, headers); on an error the function returns
ProcessMessages_Dial ==
  /\ ~panicked
  /\ pmPc = "dial"
  /\ \E ok \in BOOLEAN :
       IF ok
         THEN connState' = "open" /\ pmPc' = "store"
         ELSE connState' = connState /\ pmPc' = "returned"
  /\ UNCHANGED <<build, stopChan, WebSocketConn, panicked, readLog, closeVars,
                 dispatchVars, sendVars>>

\* s.WebSocketConn = conn; defer conn.Close()
ProcessMessages_Store ==
  /\ ~panicked
  /\ pmPc = "store"
  /\ WebSocketConn' = "conn"
  /\ pmPc' = "auth"
  /\ UNCHANGED <<build, stopChan, connState, panicked, readLog, closeVars,
                 dispatchVars, sendVars>>

\* conn.WriteJSON(authMsg): fails on a closed connection, may fail on an open
\* one; a failure returns, which runs the deferred conn.Close().
ProcessMessages_Auth ==
  /\ ~panicked
  /\ pmPc = "auth"
  /\ \E ok \in BOOLEAN :
       IF ok /\ connState = "open"
         THEN connState' = connState /\ pmPc' = "select"
         ELSE connState' = "closed" /\ pmPc' = "returned"
  /\ UNCHANGED <<build, stopChan, WebSocketConn, panicked, readLog, closeVars,
                 dispatchVars, sendVars>>

\* select { case <-s.stopChan: return; default: ... }: the default branch is
\* taken only when stopChan is not closed.
StopIgnored == FALSE

StopSignalled == stopChan = "closed"

ProcessMessages_Select ==
  /\ ~panicked
  /\ pmPc = "select"
  /\ IF StopSignalled
       THEN connState' = "closed" /\ pmPc' = "returned"
       ELSE connState' = connState /\ pmPc' = "read"
  /\ UNCHANGED <<build, stopChan, WebSocketConn, panicked, readLog, closeVars,
                 dispatchVars, sendVars>>

EventsRead == Len(SelectSeq(readLog, LAMBDA x : x = "event"))

\* conn.ReadJSON(&event) returns an event; s.handleWebSocketEvent(&event) is
\* entered.  A read that Close() overtook can still return a frame that had
\* arrived before the connection was closed.
ReadEvent(e) ==
  /\ ~panicked
  /\ pmPc = "read"
  /\ connState \in {"open", "closed"}
  /\ Len(readLog) < MaxReads
  /\ readLog' = Append(readLog, "event")
  /\ pmPc' = "dispatch"
  /\ cur' = e
  /\ stage' = "entry"
  /\ invoked' = << >>
  /\ replies' = << >>
  /\ sendFailed' = FALSE
  /\ firstFailed' = 0
  /\ downloads' = << >>
  /\ UNCHANGED <<adapterVars, closeVars, reg, sendVars>>

\* Where the loop goes after a ReadJSON error: a normal-closure close error
\* returns, any other error sleeps and retries.
ReturnOnAnyError(err) == "returned"

AfterReadError(err) ==
  IF err = "normal" THEN "returned" ELSE "backoff"

\* conn.ReadJSON(&event) returns a close error with code CloseNormalClosure:
\* the remote end closed cleanly.
ReadCloseNormal ==
  /\ ~panicked
  /\ pmPc = "read"
  /\ connState = "open"
  /\ readLog' = Append(readLog, "normal")
  /\ pmPc' = AfterReadError("normal")
  /\ connState' = "closed"
  /\ UNCHANGED <<build, stopChan, WebSocketConn, panicked, closeVars,
                 dispatchVars, sendVars>>

\* conn.ReadJSON(&event) returns any other error: a frame that does not decode
\* on an open connection, or the read of a connection Close() has closed.
ReadError ==
  /\ ~panicked
  /\ pmPc = "read"
  /\ \/ connState = "open" /\ Len(readLog) < MaxReads
     \/ connState = "closed"
  /\ readLog' = Append(readLog, "error")
  /\ pmPc' = AfterReadError("error")
  /\ UNCHANGED <<adapterVars, closeVars, dispatchVars, sendVars>>

\* time.Sleep(5 * time.Second); continue
ProcessMessages_Backoff ==
  /\ ~panicked
  /\ pmPc = "backoff"
  /\ pmPc' = "select"
  /\ UNCHANGED <<adapterVars, readLog, closeVars, dispatchVars, sendVars>>

\* s.handleWebSocketEvent(&event) is a plain call: the loop goes on when it has
\* returned.
CallSpawned == TRUE

CallReturned == stage = "done"

ProcessMessages_Next ==
  /\ ~panicked
  /\ pmPc = "dispatch"
  /\ CallReturned
  /\ pmPc' = "select"
  /\ IF stage = "done"
       THEN /\ stage' = "none"
            /\ cur' = NoEvent
            /\ invoked' = << >>
            /\ replies' = << >>
            /\ sendFailed' = FALSE
            /\ firstFailed' = 0
            /\ downloads' = << >>
       ELSE UNCHANGED <<cur, stage, invoked, replies, sendFailed, firstFailed,
                        downloads>>
  /\ UNCHANGED <<adapterVars, readLog, closeVars, reg, sendVars>>

\* -------------------------------------------------------------------- Close
\* if s.stopChan != nil { close(s.stopChan) }: stopChan is never nil after
\* construction, and closing a closed channel is a run-time panic.
Close_StopChan ==
  /\ ~panicked
  /\ closePc = "idle"
  /\ closeCalls < MaxCloseCalls
  /\ closeCalls' = closeCalls + 1
  /\ IF stopChan = "closed"
       THEN panicked' = TRUE /\ closePc' = "idle" /\ stopChan' = stopChan
       ELSE panicked' = FALSE /\ closePc' = "conn" /\ stopChan' = "closed"
  /\ UNCHANGED <<build, WebSocketConn, connState, closeReturn, loopVars,
                 dispatchVars, sendVars>>

\* if s.WebSocketConn != nil { s.WebSocketConn.Close() }: the field is read
\* without synchronisation, so the read sees the value stored before or after
\* ProcessMessages' assignment, whichever step comes first.  Close() is called
\* on the connection only when there is one; on a nil connection the call
\* would be a nil dereference.
ClosesConnUnguarded == TRUE

ClosesConn == WebSocketConn # "nil"

ConnLeftOpen == connState

ConnAfterClose == IF ClosesConn /\ WebSocketConn # "nil" THEN "closed" ELSE connState

Close_Conn ==
  /\ ~panicked
  /\ closePc = "conn"
  /\ IF ClosesConn /\ WebSocketConn = "nil"
       THEN panicked' = TRUE /\ closePc' = closePc /\ closeReturn' = closeReturn
       ELSE /\ panicked' = FALSE
            /\ closePc' = "idle"
            /\ closeReturn' = [returned |-> TRUE, events |-> EventsRead, pm |-> pmPc]
  /\ connState' = ConnAfterClose
  /\ UNCHANGED <<build, stopChan, WebSocketConn, closeCalls, loopVars,
                 dispatchVars, sendVars>>

\* ------------------------------------------------------ handleWebSocketEvent
\* The early returns as they would be with the event type checked alone.
NotAPostedEvent(event) == event.Event # "posted"

\* The early returns: not a "posted" event, no decodable post, or a post of the
\* bot itself (post.UserId == s.User.Id).
NotAPost(event) == event.Event # "posted" \/ event.Data # "post"

NeverFromSelf(post) == FALSE

FromSelf(post) == post.UserId = BotId

\* The rootId argument the dispatcher passes to sendReply: post.Id in the
\* net/http definition of the adapter, post.RootId in the Client4 one.
ReplyRootId(post) == IF build = "http" THEN post.Id ELSE post.RootId

\* sendReply as it would be if it posted to the adapter's DefaultChannel.
sendReplyToDefault(channelId, message, rootId) ==
  [channel_id |-> DefaultChannel["mattermost"],
   message |-> message,
   root_id |-> IF rootId # "" THEN rootId ELSE ""]

\* sendReply(channelId, message, rootId): the post it submits; root_id is set
\* only for a non-empty rootId.  Nothing is returned: a failure is logged.
sendReply(channelId, message, rootId) ==
  [channel_id |-> channelId,
   message |-> message,
   root_id |-> IF rootId # "" THEN rootId ELSE ""]

\* An image reply as it would be if it carried the image alone, without the
\* result's text.
sendImageReplyNoText(channelId, message, rootId) == sendReply(channelId, << >>, rootId)

\* sendImageReply(channelId, message, imageData, rootId, originalContent)
sendImageReply(channelId, message, rootId) == sendReply(channelId, message, rootId)

\* One handler invocation, as recorded in `invoked`.
Invocation(kind, key, idx, file, text, nil, ret, image) ==
  [kind |-> kind, key |-> key, idx |-> idx, file |-> file, text |-> text,
   nil |-> nil, ret |-> ret, image |-> image]

\* acc with the invocation recorded.
Invoke(acc, inv) == [acc EXCEPT !.inv = Append(@, inv)]

\* acc with a reply sent on behalf of the invocation recorded last.
Reply(acc, sent) ==
  [acc EXCEPT !.rep = Append(@, [post |-> sent, by |-> Len(acc.inv), ev |-> EventsRead])]

\* The exact stage as it would be with the lookup made on the first word of the
\* text instead of the whole text.
ExactStageFirstWord(post, acc) ==
  LET content == SplitN2(post.Message)[1] IN
  IF content \in DOMAIN Handlers
    THEN LET response == Handlers[content] IN
         Reply(Invoke(acc, Invocation("exact", content, 0, "", << >>, FALSE, response, FALSE)),
               sendReply(post.ChannelId, response, ReplyRootId(post)))
    ELSE acc

\* h, ok := Handlers[content]; if ok { response := h(); s.sendReply(...) }
ExactStage(post, acc) ==
  LET content == post.Message IN
  IF content \in DOMAIN Handlers
    THEN LET response == Handlers[content] IN
         Reply(Invoke(acc, Invocation("exact", content, 0, "", << >>, FALSE, response, FALSE)),
               sendReply(post.ChannelId, response, ReplyRootId(post)))
    ELSE acc

\* for _, v := range CatchallHandlers { r := v(Request{...}); if r != "" {...} }
RECURSIVE CatchallLoop(_, _, _)
CatchallLoop(i, post, acc) ==
  IF i > reg.catchall THEN acc
  ELSE LET r == CatchallHandler(i, post.Message)
           a1 == Invoke(acc, Invocation("catchall", << >>, i, "", post.Message, FALSE, r, FALSE))
           a2 == IF r # << >>
                   THEN Reply(a1, sendReply(post.ChannelId, r, ReplyRootId(post)))
                   ELSE a1
       IN CatchallLoop(i + 1, post, a2)

\* The catchall stage as it would be if an earlier reply ended the dispatch.
CatchallStageUnlessReplied(post, acc) ==
  IF acc.rep # << >> THEN acc ELSE CatchallLoop(1, post, acc)

CatchallStage(post, acc) == CatchallLoop(1, post, acc)

\* for _, v := range CatchallExtendedHandlers { r := v(ExtendedMessage{...}) ... }
RECURSIVE ExtendedLoop(_, _, _)
ExtendedLoop(i, post, acc) ==
  IF i > reg.extended THEN acc
  ELSE LET r == CatchallExtendedHandler(i, post.Message)
           a1 == Invoke(acc, Invocation("extended", << >>, i, "", post.Message, r.nil, r.Text, r.Image))
           a2 == IF ~r.nil /\ r.Text # << >> /\ ~r.Image
                   THEN Reply(a1, sendReply(post.ChannelId, r.Text, ReplyRootId(post)))
                   ELSE a1
           a3 == IF ~r.nil /\ r.Image
                   THEN Reply(a2, sendImageReply(post.ChannelId, r.Text, ReplyRootId(post)))
                   ELSE a2
       IN ExtendedLoop(i + 1, post, a3)

ExtendedStage(post, acc) == ExtendedLoop(1, post, acc)

\* sliced_content := strings.SplitN(content, " ", 2); if len(sliced_content) > 1 ...
CommandStage(post, acc) ==
  LET sliced_content == SplitN2(post.Message) IN
  IF Len(sliced_content) > 1
    THEN LET command == sliced_content[1]
             actual_content == sliced_content[2]
         IN IF command \in MsgInputKeys
              THEN LET response == MsgInputHandler(command, actual_content)
                       a1 == Invoke(acc, Invocation("command", command, 0, "", actual_content,
                                                    FALSE, response, FALSE))
                   IN IF response # << >>
                        THEN Reply(a1, sendReply(post.ChannelId, response, ReplyRootId(post)))
                        ELSE a1
              ELSE acc
    ELSE acc

\* for _, v := range ImageHandlers { r := v(filename, Request{...}); ... }
RECURSIVE ImageLoop(_, _, _, _)
ImageLoop(i, fileId, post, acc) ==
  IF i > reg.image THEN acc
  ELSE LET r == ImageHandler(i, Filename(fileId), post.Message)
           a1 == Invoke(acc, Invocation("image", << >>, i, fileId, post.Message, FALSE, r, FALSE))
           a2 == IF r # << >>
                   THEN Reply(a1, sendReply(post.ChannelId, r, ReplyRootId(post)))
                   ELSE a1
       IN ImageLoop(i + 1, fileId, post, a2)

\* for _, fileId := range post.FileIds { err := s.downloadFile(...); if err !=
\* nil { continue } ... }: downloaded[k] tells whether the k-th download worked.
RECURSIVE FileLoop(_, _, _, _)
FileLoop(k, post, downloaded, acc) ==
  IF k > Len(post.FileIds) THEN acc
  ELSE IF ~downloaded[k] THEN FileLoop(k + 1, post, downloaded, acc)
  ELSE FileLoop(k + 1, post, downloaded, ImageLoop(1, post.FileIds[k], post, acc))

\* The attachment stage as it would be if the first failed download ended
\* the loop (break in place of continue).
AttachmentStageAbortOnError(post, downloaded, acc) ==
  LET bad == {k \in 1..Len(post.FileIds) : ~downloaded[k]}
      stop == IF bad = {} THEN Len(post.FileIds) + 1
              ELSE CHOOSE k \in bad : \A j \in bad : k <= j
  IN FileLoop(1, [post EXCEPT !.FileIds = SubSeq(@, 1, stop - 1)], downloaded, acc)

AttachmentStage(post, downloaded, acc) == FileLoop(1, post, downloaded, acc)

Logs == [inv |-> invoked, rep |-> replies]

\* The stage that follows each stage of the dispatcher, in the order of the
\* code: exact match, catchall, extended catchall, command word, attachments.
NextStageCommandFirst(s) ==
  CASE s = "exact" -> "command"
    [] s = "command" -> "catchall"
    [] s = "catchall" -> "extended"
    [] s = "extended" -> "files"
    [] OTHER -> "done"

NextStage(s) ==
  CASE s = "exact" -> "catchall"
    [] s = "catchall" -> "extended"
    [] s = "extended" -> "command"
    [] s = "command" -> "files"
    [] OTHER -> "done"

\* Where the dispatcher goes after the sends of a stage: sendReply returns
\* nothing, so the outcome of a send cannot change it.
StopAfterFailedSend(failed, next) == IF failed THEN "done" ELSE next

AfterSend(failed, next) == next

\* A stage has run: its invocations and replies are recorded, any of its sends
\* may have failed (the k-th of them first), and the dispatcher goes on to the
\* next stage.
StageStep(out, next) ==
  /\ invoked' = out.inv
  /\ replies' = out.rep
  /\ \E k \in 0..(Len(out.rep) - Len(replies)) :
       /\ sendFailed' = (sendFailed \/ k > 0)
       /\ firstFailed' = IF firstFailed = 0 /\ k > 0
                           THEN Len(replies) + k
                           ELSE firstFailed
       /\ stage' = AfterSend(k > 0, next)
  /\ UNCHANGED <<adapterVars, loopVars, closeVars, cur, reg, sendVars>>

handleWebSocketEvent_Entry ==
  /\ ~panicked
  /\ stage = "entry"
  /\ stage' = IF NotAPost(cur) \/ FromSelf(cur) THEN "done" ELSE "exact"
  /\ UNCHANGED <<adapterVars, loopVars, closeVars, cur, invoked, replies,
                 sendFailed, firstFailed, downloads, reg, sendVars>>

handleWebSocketEvent_Exact ==
  /\ ~panicked
  /\ stage = "exact"
  /\ StageStep(ExactStage(cur, Logs), NextStage("exact"))
  /\ UNCHANGED downloads

handleWebSocketEvent_Catchall ==
  /\ ~panicked
  /\ stage = "catchall"
  /\ StageStep(CatchallStage(cur, Logs), NextStage("catchall"))
  /\ UNCHANGED downloads

handleWebSocketEvent_Extended ==
  /\ ~panicked
  /\ stage = "extended"
  /\ StageStep(ExtendedStage(cur, Logs), NextStage("extended"))
  /\ UNCHANGED downloads

handleWebSocketEvent_Command ==
  /\ ~panicked
  /\ stage = "command"
  /\ StageStep(CommandStage(cur, Logs), NextStage("command"))
  /\ UNCHANGED downloads

handleWebSocketEvent_Files ==
  /\ ~panicked
  /\ stage = "files"
  /\ \E dl \in [1..Len(cur.FileIds) -> BOOLEAN] :
       /\ StageStep(AttachmentStage(cur, dl, Logs), NextStage("files"))
       /\ downloads' = dl

Dispatch ==
  \/ handleWebSocketEvent_Entry
  \/ handleWebSocketEvent_Exact
  \/ handleWebSocketEvent_Catchall
  \/ handleWebSocketEvent_Extended
  \/ handleWebSocketEvent_Command
  \/ handleWebSocketEvent_Files

\* ------------------------------------------------------------ specifications
\* The receive loop and Close(), fed a few events.
Next ==
  \/ StartProcessMessages
  \/ ProcessMessages_Dial
  \/ ProcessMessages_Store
  \/ ProcessMessages_Auth
  \/ ProcessMessages_Select
  \/ \E e \in LoopEvents : ReadEvent(e)
  \/ ReadCloseNormal
  \/ ReadError
  \/ ProcessMessages_Backoff
  \/ ProcessMessages_Next
  \/ Close_StopChan
  \/ Close_Conn
  \/ Dispatch

Spec == Init /\ [][Next]_vars

\* The dispatcher alone: the loop has read one event, any event, under any
\* registration, and handleWebSocketEvent runs on it.
InitDispatch ==
  /\ build \in Builds
  /\ stopChan = "open"
  /\ WebSocketConn = "conn"
  /\ connState = "open"
  /\ panicked = FALSE
  /\ closePc = "idle"
  /\ closeCalls = 0
  /\ closeReturn = NoReturn
  /\ pmPc = "dispatch"
  /\ readLog = <<"event">>
  /\ cur \in AllEvents
  /\ stage = "entry"
  /\ invoked = << >>
  /\ replies = << >>
  /\ sendFailed = FALSE
  /\ firstFailed = 0
  /\ downloads = << >>
  /\ NoCommand
  /\ reg \in Registrations
  /\ DefaultChannel = LoopDefaults
  /\ MessagePlatforms = <<"mattermost">>
  /\ lastSend = NoSend
  /\ lastBroadcast = NoBroadcast

NextDispatch == Dispatch

SpecDispatch == InitDispatch /\ [][NextDispatch]_vars

\* -------------------------------------------------------- ChannelMessageSend
\* What the POST of a message can give: status 201, another status, or no
\* response at all.
NetOutcomes == {"201", "status", "transport"}

\* ChannelMessageSend as it would be without the fallback to DefaultChannel.
ChannelMessageSendNoFallback(dflt, channel, message, net) ==
  IF channel = ""
    THEN [err |-> "no channel specified", posts |-> << >>]
    ELSE [err |-> IF net = "201" THEN "" ELSE "failed to send message",
          posts |-> <<[channel_id |-> channel, message |-> message]>>]

\* (s *MattermostMessagePlatform) ChannelMessageSend(channel, message) on an
\* adapter whose DefaultChannel is dflt, the POST giving net: the error returned
\* ("" for nil) and the posts submitted.
ChannelMessageSend(dflt, channel, message, net) ==
  LET channelId == IF channel = "" THEN dflt ELSE channel IN
  IF channelId = ""
    THEN [err |-> "no channel specified", posts |-> << >>]
    ELSE [err |-> IF net = "201" THEN "" ELSE "failed to send message",
          posts |-> <<[channel_id |-> channelId, message |-> message]>>]

SendChannels == {"", "general"}

\* A call of the Mattermost adapter's ChannelMessageSend.
Adapter_ChannelMessageSend ==
  /\ ~panicked
  /\ \E i \in DOMAIN MessagePlatforms : MessagePlatforms[i] = "mattermost"
  /\ \E channel \in SendChannels, net \in NetOutcomes :
       LET r == ChannelMessageSend(DefaultChannel["mattermost"], channel, "hello", net) IN
       lastSend' = [called |-> TRUE, via |-> "ChannelMessageSend", override |-> "",
                    channel |-> channel, dflt |-> DefaultChannel["mattermost"],
                    err |-> r.err, posts |-> r.posts]
  /\ UNCHANGED <<adapterVars, loopVars, closeVars, dispatchVars, DefaultChannel,
                 MessagePlatforms, lastBroadcast, cmdVars>>

\* SendOptions: the target-channel override of the options bag, "" when the
\* bag has none.
Overrides == {"", "general"}

\* The channel argument SendWithOptions passes to ChannelMessageSend: the
\* literal "", whatever the options hold.
SendWithOptionsChannel(options) == ""

\* s.SendWithOptions(text, options), the POST giving net: what the call of
\* ChannelMessageSend it makes was given and gave.  Its error is logged, nothing
\* is returned.
SendWithOptions(via, options, net) ==
  LET channel == SendWithOptionsChannel(options)
      r == ChannelMessageSend(DefaultChannel["mattermost"], channel, "hello", net)
  IN [called |-> TRUE, via |-> via, override |-> options, channel |-> channel,
      dflt |-> DefaultChannel["mattermost"], err |-> r.err, posts |-> r.posts]

\* A call of the Mattermost adapter's SendWithOptions(text, options).
Adapter_SendWithOptions ==
  /\ ~panicked
  /\ \E i \in DOMAIN MessagePlatforms : MessagePlatforms[i] = "mattermost"
  /\ \E options \in Overrides, net \in NetOutcomes :
       lastSend' = SendWithOptions("SendWithOptions", options, net)
  /\ UNCHANGED <<adapterVars, loopVars, closeVars, dispatchVars, DefaultChannel,
                 MessagePlatforms, lastBroadcast, cmdVars>>

\* A call of Send(text): s.SendWithOptions(text, SendOptions{})
Adapter_Send ==
  /\ ~panicked
  /\ \E i \in DOMAIN MessagePlatforms : MessagePlatforms[i] = "mattermost"
  /\ \E net \in NetOutcomes : lastSend' = SendWithOptions("Send", "", net)
  /\ UNCHANGED <<adapterVars, loopVars, closeVars, dispatchVars, DefaultChannel,
                 MessagePlatforms, lastBroadcast, cmdVars>>

\* bothandler.ChannelMessageSend(channel, message): every registered adapter's
\* ChannelMessageSend is called in turn; the error of the last adapter that
\* failed is returned, nil when none failed.
RECURSIVE RegistryLoop(_, _, _, _, _)
RegistryLoop(i, channel, message, nets, acc) ==
  IF i > Len(MessagePlatforms) THEN acc
  ELSE LET p == MessagePlatforms[i]
           r == ChannelMessageSend(DefaultChannel[p], channel, message, nets[i])
           a1 == [acc EXCEPT !.attempted = Append(@, p)]
           a2 == IF r.err # ""
                   THEN [a1 EXCEPT !.failed = Append(@, p), !.err = r.err]
                   ELSE a1
       IN RegistryLoop(i + 1, channel, message, nets, a2)

\* The registry send as it would be if the loop kept only the last adapter's
\* result.
RegistrySendLastResult(channel, message, nets) ==
  LET r == RegistryLoop(1, channel, message, nets,
                        [called |-> TRUE, channel |-> channel, nets |-> nets,
                         attempted |-> << >>, failed |-> << >>, err |-> ""])
  IN IF r.failed # << >> /\ r.failed[Len(r.failed)] = r.attempted[Len(r.attempted)]
       THEN r
       ELSE [r EXCEPT !.err = ""]

RegistryChannelMessageSend(channel, message, nets) ==
  RegistryLoop(1, channel, message, nets,
               [called |-> TRUE, channel |-> channel, nets |-> nets,
                attempted |-> << >>, failed |-> << >>, err |-> ""])

\* One registry send on `channel`, each adapter's POST answered as nets says.
RegistrySend(channel) ==
  \E nets \in [DOMAIN MessagePlatforms -> {"201", "status"}] :
    lastBroadcast' = RegistryChannelMessageSend(channel, "hello", nets)

\* err := bothandler.ChannelMessageSend(channel, mesg) in sendmsg
Registry_ChannelMessageSend ==
  /\ ~panicked
  /\ \E channel \in SendChannels : RegistrySend(channel)
  /\ UNCHANGED <<adapterVars, loopVars, closeVars, dispatchVars, DefaultChannel,
                 MessagePlatforms, lastSend, cmdVars>>

\* The subsequences of Platforms: the platforms whose credentials are set, in
\* the order sendmsg registers them.
RECURSIVE Pick(_, _)
Pick(i, S) ==
  IF i > Len(Platforms) THEN << >>
  ELSE IF Platforms[i] \in S THEN <<Platforms[i]>> \o Pick(i + 1, S)
  ELSE Pick(i + 1, S)

\* The DefaultChannel sendmsg leaves each adapter with: "random" for Slack,
\* "offtopic" for Telegram, MATTERMOST_CHANNEL or "" for Mattermost, the path of
\* IRC_CONN for IRC.
SendDefaults ==
  {d \in [PlatformNames -> {"", "random", "offtopic", "town", "engineers-my"}] :
     /\ d["discord"] = ""
     /\ d["slack"] = "random"
     /\ d["telegram"] = "offtopic"
     /\ d["mattermost"] \in {"", "town"}
     /\ d["irc"] \in {"", "engineers-my"}}

\* The one-shot send: the adapters are constructed and registered, then sends
\* are made.
InitSend ==
  /\ Constructed
  /\ Idle
  /\ NoCommand
  /\ pmPc = "idle"
  /\ readLog = << >>
  /\ reg = FullRegistration
  /\ DefaultChannel \in SendDefaults
  /\ \E S \in SUBSET PlatformNames : MessagePlatforms = Pick(1, S)

NextSend ==
  \/ Adapter_ChannelMessageSend
  \/ Adapter_SendWithOptions
  \/ Adapter_Send
  \/ Registry_ChannelMessageSend

SpecSend == InitSend /\ [][NextSend]_vars

\* ------------------------------------------------------- the program runs
\* One entry of `calls`.
Call(op, p) == [op |-> op, p |-> p]

\* if platform == p || platform == "all", and p's credentials are set
Wanted(p) == args.platform = p \/ args.platform = "all"

Configured(p) == p \in env

\* The block of sendmsg that follows the block of platform p.
AfterBlock(p) ==
  CASE p = "discord" -> "slack"
    [] p = "slack" -> "telegram"
    [] p = "telegram" -> "mattermost"
    [] p = "mattermost" -> "irc"
    [] OTHER -> "send"

\* bothandler.RegisterPassiveMessagePlatform(n)
RegisterPassiveMessagePlatform(p) ==
  /\ MessagePlatforms' = Append(MessagePlatforms, p)
  /\ calls' = Append(calls, Call("RegisterPassiveMessagePlatform", p))

\* bothandler.RegisterMessagePlatform(s); go s.ProcessMessages()
RegisterMessagePlatformAndGo(p) ==
  /\ MessagePlatforms' = Append(MessagePlatforms, p)
  /\ calls' = Append(Append(calls, Call("RegisterMessagePlatform", p)),
                     Call("ProcessMessages", p))

\* The block of a platform that is not asked for or not configured does nothing.
SkipBlock(p) ==
  /\ cmdPc' = AfterBlock(p)
  /\ UNCHANGED <<adapterVars, loopVars, DefaultChannel, MessagePlatforms, calls>>

\* A constructor error as it would be if it were logged and the block passed
\* over.
FatalLoggedOnly ==
  /\ cmdPc' = AfterBlock(cmdPc)
  /\ calls' = Append(calls, Call("log.Fatal", cmdPc))
  /\ UNCHANGED <<adapterVars, loopVars, DefaultChannel, MessagePlatforms>>

\* if err != nil { log.Fatal(err) }: the constructor of the platform in hand
\* failed; the error is logged and the process exits at once.
Fatal ==
  /\ cmdPc' = "fatal"
  /\ calls' = Append(calls, Call("log.Fatal", cmdPc))
  /\ UNCHANGED <<adapterVars, loopVars, DefaultChannel, MessagePlatforms>>

\* if len(args) < 3 { log.Println("Not enough params"); return }
Sendmsg_Args ==
  /\ entry = "sendmsg"
  /\ cmdPc = "args"
  /\ cmdPc' = IF args.n < 3 THEN "exited" ELSE "discord"
  /\ UNCHANGED <<adapterVars, loopVars, closeVars, dispatchVars, DefaultChannel,
                 MessagePlatforms, lastSend, lastBroadcast, entry, args, env, calls>>

Sendmsg_Discord ==
  /\ entry = "sendmsg"
  /\ cmdPc = "discord"
  /\ IF Wanted("discord") /\ Configured("discord")
       THEN \E ok \in BOOLEAN :
              IF ok
                THEN /\ RegisterPassiveMessagePlatform("discord")
                     /\ cmdPc' = AfterBlock("discord")
                     /\ UNCHANGED <<adapterVars, loopVars, DefaultChannel>>
                ELSE Fatal
       ELSE SkipBlock("discord")
  /\ UNCHANGED <<closeVars, dispatchVars, lastSend, lastBroadcast, entry, args, env>>

Sendmsg_Slack ==
  /\ entry = "sendmsg"
  /\ cmdPc = "slack"
  /\ IF Wanted("slack") /\ Configured("slack")
       THEN \E ok \in BOOLEAN :
              IF ok
                THEN /\ DefaultChannel' = [DefaultChannel EXCEPT !["slack"] = "random"]
                     /\ RegisterPassiveMessagePlatform("slack")
                     /\ cmdPc' = AfterBlock("slack")
                     /\ UNCHANGED <<adapterVars, loopVars>>
                ELSE Fatal
       ELSE SkipBlock("slack")
  /\ UNCHANGED <<closeVars, dispatchVars, lastSend, lastBroadcast, entry, args, env>>

Sendmsg_Telegram ==
  /\ entry = "sendmsg"
  /\ cmdPc = "telegram"
  /\ IF Wanted("telegram") /\ Configured("telegram")
       THEN \E ok \in BOOLEAN :
              IF ok
                THEN /\ DefaultChannel' = [DefaultChannel EXCEPT !["telegram"] = "offtopic"]
                     /\ RegisterMessagePlatformAndGo("telegram")
                     /\ cmdPc' = AfterBlock("telegram")
                     /\ UNCHANGED <<adapterVars, loopVars>>
                ELSE Fatal
       ELSE SkipBlock("telegram")
  /\ UNCHANGED <<closeVars, dispatchVars, lastSend, lastBroadcast, entry, args, env>>

\* The Mattermost block: the adapter is constructed (its stopChan made), its
\* DefaultChannel set from MATTERMOST_CHANNEL when that is not empty, it is
\* registered and its receive loop started.
Sendmsg_Mattermost ==
  /\ entry = "sendmsg"
  /\ cmdPc = "mattermost"
  /\ IF Wanted("mattermost") /\ Configured("mattermost")
       THEN \E ok \in BOOLEAN, mattermost_channel \in {"", "town"} :
              IF ok
                THEN /\ stopChan' = "open"
                     /\ DefaultChannel' =
                          IF mattermost_channel # ""
                            THEN [DefaultChannel EXCEPT !["mattermost"] = mattermost_channel]
                            ELSE DefaultChannel
                     /\ RegisterMessagePlatformAndGo("mattermost")
                     /\ pmPc' = "dial"
                     /\ cmdPc' = AfterBlock("mattermost")
                     /\ UNCHANGED <<build, WebSocketConn, connState, panicked, readLog>>
                ELSE Fatal
       ELSE SkipBlock("mattermost")
  /\ UNCHANGED <<closeVars, dispatchVars, lastSend, lastBroadcast, entry, args, env>>

\* The IRC block: an IRC_CONN that does not parse as a URL is passed over.
Sendmsg_Irc ==
  /\ entry = "sendmsg"
  /\ cmdPc = "irc"
  /\ IF Wanted("irc") /\ Configured("irc")
       THEN \E parsed \in BOOLEAN, ok \in BOOLEAN, path \in {"", "engineers-my"} :
              IF ~parsed THEN SkipBlock("irc")
              ELSE IF ok
                THEN /\ DefaultChannel' = [DefaultChannel EXCEPT !["irc"] = path]
                     /\ RegisterMessagePlatformAndGo("irc")
                     /\ cmdPc' = AfterBlock("irc")
                     /\ UNCHANGED <<adapterVars, loopVars>>
                ELSE Fatal
       ELSE SkipBlock("irc")
  /\ UNCHANGED <<closeVars, dispatchVars, lastSend, lastBroadcast, entry, args, env>>

\* err := bothandler.ChannelMessageSend(channel, mesg); an error is logged; Run
\* returns and the process exits.
Sendmsg_Send ==
  /\ entry = "sendmsg"
  /\ cmdPc = "send"
  /\ RegistrySend(args.channel)
  /\ cmdPc' = "exited"
  /\ UNCHANGED <<adapterVars, loopVars, closeVars, dispatchVars, DefaultChannel,
                 MessagePlatforms, lastSend, entry, args, env, calls>>

\* main.go: dg, err := discordgo.New("Bot " + token); an error returns.
Main_New ==
  /\ entry = "bot"
  /\ cmdPc = "new"
  /\ \E ok \in BOOLEAN : cmdPc' = IF ok THEN "open" ELSE "exited"
  /\ UNCHANGED <<adapterVars, loopVars, closeVars, dispatchVars, DefaultChannel,
                 MessagePlatforms, lastSend, lastBroadcast, entry, args, env, calls>>

\* dg.AddHandler(messageCreate); err = dg.Open(); an error returns.
Main_Open ==
  /\ entry = "bot"
  /\ cmdPc = "open"
  /\ \E ok \in BOOLEAN :
       IF ok /\ Configured("discord")
         THEN /\ cmdPc' = "wait"
              /\ MessagePlatforms' = Append(MessagePlatforms, "discord")
              /\ calls' = Append(calls, Call("Open", "discord"))
         ELSE /\ cmdPc' = "exited"
              /\ UNCHANGED <<MessagePlatforms, calls>>
  /\ UNCHANGED <<adapterVars, loopVars, closeVars, dispatchVars, DefaultChannel,
                 lastSend, lastBroadcast, entry, args, env>>

\* <-sc: an interrupt or termination signal arrives.
Main_Signal ==
  /\ entry = "bot"
  /\ cmdPc = "wait"
  /\ cmdPc' = "close"
  /\ UNCHANGED <<adapterVars, loopVars, closeVars, dispatchVars, DefaultChannel,
                 MessagePlatforms, lastSend, lastBroadcast, entry, args, env, calls>>

\* dg.Close(); main returns.
Main_Close ==
  /\ entry = "bot"
  /\ cmdPc = "close"
  /\ calls' = Append(calls, Call("Close", "discord"))
  /\ cmdPc' = "exited"
  /\ UNCHANGED <<adapterVars, loopVars, closeVars, dispatchVars, DefaultChannel,
                 MessagePlatforms, lastSend, lastBroadcast, entry, args, env>>

\* The process is running: once it has exited its goroutines are gone.
Running == cmdPc \notin {"exited", "fatal"}

\* The receive loop sendmsg started for Mattermost, for as long as the process
\* runs.
Sendmsg_Loop ==
  /\ Running
  /\ pmPc = "read" => Len(readLog) < MaxCmdReads
  /\ \/ ProcessMessages_Dial
     \/ ProcessMessages_Store
     \/ ProcessMessages_Auth
     \/ ProcessMessages_Select
     \/ \E e \in LoopEvents : ReadEvent(e)
     \/ ReadCloseNormal
     \/ ReadError
     \/ ProcessMessages_Backoff
     \/ ProcessMessages_Next
     \/ Dispatch

SendmsgArgs ==
  [n : {2, 3}, platform : PlatformNames \cup {"all", "other"}, channel : SendChannels]

\* A program is started: sendmsg with its arguments and environment, or the
\* Discord bot of main.go.  No adapter is constructed yet.
InitCmd ==
  /\ build \in Builds
  /\ stopChan = "nil"
  /\ WebSocketConn = "nil"
  /\ connState = "none"
  /\ panicked = FALSE
  /\ closePc = "idle"
  /\ closeCalls = 0
  /\ closeReturn = NoReturn
  /\ lastSend = NoSend
  /\ lastBroadcast = NoBroadcast
  /\ Idle
  /\ pmPc = "idle"
  /\ readLog = << >>
  /\ reg = FullRegistration
  /\ DefaultChannel = [p \in PlatformNames |-> ""]
  /\ MessagePlatforms = << >>
  /\ calls = << >>
  /\ entry \in {"bot", "sendmsg"}
  /\ IF entry = "sendmsg"
       THEN cmdPc = "args" /\ args \in SendmsgArgs /\ env \in SUBSET PlatformNames
       ELSE cmdPc = "new" /\ args = NoArgs /\ env \in {{}, {"discord"}}

NextCmd ==
  \/ Sendmsg_Args
  \/ Sendmsg_Discord
  \/ Sendmsg_Slack
  \/ Sendmsg_Telegram
  \/ Sendmsg_Mattermost
  \/ Sendmsg_Irc
  \/ Sendmsg_Send
  \/ Sendmsg_Loop
  \/ Main_New
  \/ Main_Open
  \/ Main_Signal
  \/ Main_Close

SpecCmd == InitCmd /\ [][NextCmd]_vars

\* The scheduling the Go run time and the network give: a runnable goroutine
\* runs, Dial and WriteJSON return, handlers and sends return, and a read of a
\* closed connection returns an error.  A read of an open connection may block
\* for ever.
FairSpec ==
  /\ Spec
  /\ WF_vars(ProcessMessages_Dial)
  /\ WF_vars(ProcessMessages_Store)
  /\ WF_vars(ProcessMessages_Auth)
  /\ WF_vars(ProcessMessages_Select)
  /\ WF_vars(ProcessMessages_Backoff)
  /\ WF_vars(ProcessMessages_Next)
  /\ WF_vars(Dispatch)
  /\ WF_vars(Close_Conn)
  /\ WF_vars(ReadError /\ connState = "closed")

\* ------------------------------------------------------------------- claims
LastRead == IF readLog = << >> THEN "" ELSE readLog[Len(readLog)]

\* The event went past the early returns: a decodable post of another user.
Dispatched == ~NotAPost(cur) /\ cur.UserId # BotId

\* The invocations of one kind, in the order they were made.
OfKind(kind) == SelectSeq(invoked, LAMBDA v : v.kind = kind)

\* The replies sent on behalf of invocations of one kind.
RepliesOf(kind) == SelectSeq(replies, LAMBDA r : invoked[r.by].kind = kind)

\* C1: calling Close() twice on the same adapter completes both calls without
\* a panic.
C1_CloseTwiceNoPanic == closeCalls >= 2 => ~panicked

\* C2: once Close() has been called on an adapter whose ProcessMessages() was
\* started, ProcessMessages() eventually returns; a panic arises only from a
\* second Close() call, never from the interleaving of one Close() with the
\* loop.
C2_CloseStopsLoop ==
  /\ [](panicked => closeCalls >= 2)
  /\ (closeCalls >= 1 /\ pmPc # "idle") ~> (pmPc = "returned" \/ panicked)

\* C2 witness: one Close() interrupted a blocked read; the loop saw the read
\* error, then the stop signal, and returned.
C2_Witness ==
  /\ closeCalls = 1
  /\ closePc = "idle"
  /\ pmPc = "returned"
  /\ LastRead = "error"

\* C3: while a post of the bot itself is dispatched, no handler of any kind is
\* invoked and no reply is sent, whatever its text and attachments.
C3_SelfFilter ==
  (stage # "none" /\ cur.UserId = BotId) => (invoked = << >> /\ replies = << >>)

\* C3 witness: a post of the bot itself whose text matches an exact handler and
\* a command, with attachments, has been handled to the end.
C3_Witness ==
  /\ stage = "done"
  /\ ~NotAPost(cur)
  /\ cur.UserId = BotId
  /\ cur.Message = <<"a", " ", "a">>
  /\ Len(cur.FileIds) = 2
  /\ reg = FullRegistration

\* C4: once the exact-match stage of a dispatched post has run, it has made one
\* reply, carrying the handler's return value, when the full text is a
\* registered key, and no invocation and no reply otherwise.
C4_ExactMatch ==
  (Dispatched /\ stage \in {"catchall", "extended", "command", "files", "done"}) =>
    IF cur.Message \in DOMAIN Handlers
      THEN /\ Len(OfKind("exact")) = 1
           /\ Len(RepliesOf("exact")) = 1
           /\ RepliesOf("exact")[1].post.message = Handlers[cur.Message]
      ELSE /\ OfKind("exact") = << >>
           /\ RepliesOf("exact") = << >>

\* C4 witness: the text "a a" is a key, and its handler's "e" is the reply.
C4_Witness ==
  /\ stage = "done"
  /\ cur.Message = <<"a", " ", "a">>
  /\ Len(replies) >= 1
  /\ replies[1].post.message = <<"e">>
  /\ invoked[1].kind = "exact"

\* C5: once the catchall stage (the extended catchall stage) of a dispatched
\* post has run, every registered catchall (extended catchall) handler has been
\* invoked exactly once, in registration order, with the post's text.
C5_AllCatchallsRun ==
  /\ (Dispatched /\ stage \in {"extended", "command", "files", "done"}) =>
       /\ Len(OfKind("catchall")) = reg.catchall
       /\ \A i \in 1..Len(OfKind("catchall")) :
            OfKind("catchall")[i].idx = i /\ OfKind("catchall")[i].text = cur.Message
  /\ (Dispatched /\ stage \in {"command", "files", "done"}) =>
       /\ Len(OfKind("extended")) = reg.extended
       /\ \A i \in 1..Len(OfKind("extended")) :
            OfKind("extended")[i].idx = i /\ OfKind("extended")[i].text = cur.Message

\* C5 witness: the exact stage matched and replied, a send failed, and still
\* both catchall and both extended handlers ran; the post got several replies.
C5_Witness ==
  /\ stage = "done"
  /\ Len(OfKind("exact")) = 1
  /\ sendFailed
  /\ Len(OfKind("catchall")) = 2
  /\ Len(OfKind("extended")) = 2
  /\ Len(RepliesOf("catchall")) >= 1
  /\ Len(replies) >= 3

\* The position of the first space of a text.
FirstSpace(text) ==
  CHOOSE i \in 1..Len(text) :
    text[i] = " " /\ \A j \in 1..(i - 1) : text[j] # " "

HasSpace(text) == \E i \in 1..Len(text) : text[i] = " "

\* C6: once the command stage of a dispatched post has run: a text with a space
\* whose part before the first space is a registered command has invoked that
\* handler exactly once, with everything after the first space; any other text,
\* a text without a space included, has invoked no command handler.
C6_CommandWord ==
  (Dispatched /\ stage \in {"files", "done"}) =>
    IF HasSpace(cur.Message) /\
       SubSeq(cur.Message, 1, FirstSpace(cur.Message) - 1) \in MsgInputKeys
      THEN /\ Len(OfKind("command")) = 1
           /\ OfKind("command")[1].key =
                SubSeq(cur.Message, 1, FirstSpace(cur.Message) - 1)
           /\ OfKind("command")[1].text =
                SubSeq(cur.Message, FirstSpace(cur.Message) + 1, Len(cur.Message))
      ELSE OfKind("command") = << >>

\* C6 witness: "a  " invokes command "a" with the remainder " ", which itself
\* holds a space.
C6_Witness ==
  /\ stage = "done"
  /\ cur.Message = <<"a", " ", " ">>
  /\ Len(OfKind("command")) = 1
  /\ OfKind("command")[1].text = <<" ">>

\* C7: a call of the adapter's ChannelMessageSend posts to the channel argument
\* when it is not empty, to DefaultChannel when it is empty, and with both empty
\* returns an error and posts nothing.
C7_ChannelFallback ==
  lastSend.called =>
    /\ lastSend.channel # "" =>
         /\ Len(lastSend.posts) = 1
         /\ lastSend.posts[1].channel_id = lastSend.channel
    /\ (lastSend.channel = "" /\ lastSend.dflt # "") =>
         /\ Len(lastSend.posts) = 1
         /\ lastSend.posts[1].channel_id = lastSend.dflt
    /\ (lastSend.channel = "" /\ lastSend.dflt = "") =>
         /\ lastSend.err # ""
         /\ lastSend.posts = << >>

\* C7 witness: a send with no channel went to the DefaultChannel "town".
C7_Witness ==
  /\ lastSend.called
  /\ lastSend.channel = ""
  /\ DefaultChannel["mattermost"] = "town"
  /\ lastSend.err = ""
  /\ lastSend.posts = <<[channel_id |-> "town", message |-> "hello"]>>

\* The i-th registered adapter's send succeeds: it has a channel to send to and
\* its POST is answered 201.
AdapterSucceeds(i) ==
  /\ lastBroadcast.nets[i] = "201"
  /\ lastBroadcast.channel # "" \/ DefaultChannel[MessagePlatforms[i]] # ""

\* C8: a registry send calls every registered adapter, whichever of them fail,
\* and returns nil exactly when every adapter's send succeeded.
C8_BroadcastAll ==
  lastBroadcast.called =>
    /\ lastBroadcast.attempted = MessagePlatforms
    /\ (lastBroadcast.err = "") <=>
         (\A i \in DOMAIN MessagePlatforms : AdapterSucceeds(i))

\* C8 witness: of two adapters the first failed and the second succeeded; both
\* were called and the result is a failure.
C8_Witness ==
  /\ lastBroadcast.called
  /\ Len(MessagePlatforms) = 2
  /\ ~AdapterSucceeds(1)
  /\ AdapterSucceeds(2)
  /\ lastBroadcast.attempted = MessagePlatforms
  /\ lastBroadcast.err # ""

\* C9: after a read error that is not a normal closure the loop has not
\* returned unless the stop signal was given, and from the backoff it comes to
\* read again unless Close() is called; after a normal closure it has returned.
C9_RetryAfterReadError ==
  /\ [](LastRead = "normal" => pmPc = "returned")
  /\ [](LastRead = "error" =>
          \/ pmPc \in {"backoff", "select", "read"}
          \/ pmPc = "returned" /\ stopChan = "closed")
  /\ (pmPc = "backoff") ~> (pmPc = "read" \/ stopChan = "closed")

\* C9 witness: two reads in a row failed, Close() was not called, and the loop
\* is reading again.
C9_Witness ==
  /\ readLog = <<"error", "error">>
  /\ pmPc = "read"
  /\ closeCalls = 0

\* C10: an event is being dispatched only while the loop is inside its call of
\* handleWebSocketEvent, and every reply on record belongs to the event read
\* last: the loop reads no event while a dispatch is under way.
C10_SequentialDispatch ==
  /\ stage # "none" => pmPc = "dispatch"
  /\ pmPc # "dispatch" => (cur = NoEvent /\ replies = << >>)
  /\ \A i \in 1..Len(replies) : replies[i].ev = EventsRead

\* C10 witness: the second event read has been dispatched to the end and got
\* replies of its own.
C10_Witness ==
  /\ EventsRead = 2
  /\ stage = "done"
  /\ pmPc = "dispatch"
  /\ Len(replies) >= 2

\* The registry writes among the calls made so far.
RegistryWrites == {"RegisterMessagePlatform", "RegisterPassiveMessagePlatform"}

\* C11: in a run of sendmsg no write to the platform registry comes after the
\* start of any adapter's receive loop.
C11_NoRegistryWriteAfterLoopStart ==
  entry = "sendmsg" =>
    \A i \in 1..Len(calls), j \in 1..Len(calls) :
      (i < j /\ calls[i].op = "ProcessMessages") => calls[j].op \notin RegistryWrites

\* C12: sendmsg registers every adapter it constructs as a passive platform and
\* starts no receive loop.
C12_SendmsgRegistersPassive ==
  entry = "sendmsg" =>
    \A i \in 1..Len(calls) :
      calls[i].op \in RegistryWrites \cup {"ProcessMessages"} =>
        calls[i].op = "RegisterPassiveMessagePlatform"

\* C13: when the process has exited, by the bot's interrupt path or by sendmsg's
\* return after its send, Close() has been called on every registered adapter.
C13_CloseBeforeExit ==
  cmdPc = "exited" =>
    \A i \in 1..Len(MessagePlatforms) :
      \E j \in 1..Len(calls) : calls[j] = Call("Close", MessagePlatforms[i])

\* What the dispatcher has invoked and sent by the time it stands at each stage
\* when every send succeeds: the stages applied in order to empty logs.
ExpectedLogs ==
  LET e0 == [inv |-> << >>, rep |-> << >>]
      e1 == ExactStage(cur, e0)
      e2 == CatchallStage(cur, e1)
      e3 == ExtendedStage(cur, e2)
      e4 == CommandStage(cur, e3)
  IN CASE stage = "exact" -> e0
       [] stage = "catchall" -> e1
       [] stage = "extended" -> e2
       [] stage = "command" -> e3
       [] stage = "files" -> e4
       [] OTHER -> AttachmentStage(cur, downloads, e4)

\* C14: whichever sends failed, a dispatched post has at every stage the
\* invocations and replies it has when every send succeeds, and at the end of
\* the dispatch every stage has run.
C14_FailedSendDoesNotStop ==
  (Dispatched /\ stage \in {"exact", "catchall", "extended", "command", "files", "done"}) =>
    /\ stage = "done" => Len(downloads) = Len(cur.FileIds)
    /\ Logs = ExpectedLogs

\* C14 witness: the first catchall handler's reply failed; the second catchall
\* handler still replied, and the extended and image stages still ran.
C14_Witness ==
  /\ stage = "done"
  /\ sendFailed
  /\ firstFailed > 0
  /\ firstFailed < Len(replies)
  /\ invoked[replies[firstFailed].by].kind = "catchall"
  /\ invoked[replies[firstFailed].by].idx = 1
  /\ invoked[replies[firstFailed + 1].by].kind = "catchall"
  /\ Len(RepliesOf("extended")) >= 1
  /\ Len(RepliesOf("image")) >= 1

\* The image-handler invocations made for one attachment.
ImageCalls(fileId) ==
  SelectSeq(invoked, LAMBDA v : v.kind = "image" /\ v.file = fileId)

\* C15: at the end of a dispatch every registered image handler has been
\* invoked exactly once, in order, with the post's full text, for each
\* attachment whose download succeeded, and not at all for the others.
C15_AttachmentsIndependent ==
  (Dispatched /\ stage = "done") =>
    /\ Len(downloads) = Len(cur.FileIds)
    /\ \A k \in 1..Len(cur.FileIds) :
         IF downloads[k]
           THEN /\ Len(ImageCalls(cur.FileIds[k])) = reg.image
                /\ \A i \in 1..reg.image :
                     /\ ImageCalls(cur.FileIds[k])[i].idx = i
                     /\ ImageCalls(cur.FileIds[k])[i].text = cur.Message
           ELSE ImageCalls(cur.FileIds[k]) = << >>

\* C15 witness: of two attachments the first download failed and the second
\* succeeded; both image handlers ran on the second.
C15_Witness ==
  /\ stage = "done"
  /\ Dispatched
  /\ Len(cur.FileIds) = 2
  /\ downloads = <<FALSE, TRUE>>
  /\ reg.image = 2
  /\ Len(ImageCalls(cur.FileIds[2])) = 2
  /\ ImageCalls(cur.FileIds[1]) = << >>

\* C16: a first Close() on an adapter whose ProcessMessages() was never started
\* does not panic, and the call returns.
C16_CloseNeverStarted ==
  /\ []((pmPc = "idle" /\ closeCalls = 1) => ~panicked)
  /\ (pmPc = "idle" /\ closePc = "conn") ~> (closePc = "idle")

\* C16 witness: Close() was called once and has returned, the loop never
\* started and there was no connection to close.
C16_Witness ==
  /\ pmPc = "idle"
  /\ closeCalls = 1
  /\ closePc = "idle"
  /\ stopChan = "closed"
  /\ WebSocketConn = "nil"
  /\ ~panicked

\* C17: no reply of the exact-match stage carries the empty string: when the
\* matched handler returns "" nothing is sent.
C17_EmptyExactNoReply ==
  Dispatched =>
    \A i \in 1..Len(RepliesOf("exact")) : RepliesOf("exact")[i].post.message # << >>

\* C18: every reply sent for a post has the id of that post as its root id.
C18_ReplyToOriginal ==
  Dispatched => \A i \in 1..Len(replies) : replies[i].post.root_id = cur.Id

\* The replies sent on behalf of the j-th invocation.
RepliesBy(j) == SelectSeq(replies, LAMBDA r : r.by = j)

\* C19: once the extended-catchall stage has run, each of its handler results
\* has yielded: no reply for nil; one reply carrying the text for a non-nil
\* image, whatever the text; one reply carrying the text for a nil image and a
\* non-empty text; no reply for a nil image and an empty text.
C19_ExtendedResults ==
  (Dispatched /\ stage \in {"command", "files", "done"}) =>
    \A j \in 1..Len(invoked) :
      invoked[j].kind = "extended" =>
        LET v == invoked[j]
            r == CatchallExtendedHandler(v.idx, cur.Message)
        IN /\ v.nil = r.nil /\ v.ret = r.Text /\ v.image = r.Image
           /\ IF r.nil \/ (~r.Image /\ r.Text = << >>)
                THEN RepliesBy(j) = << >>
                ELSE /\ Len(RepliesBy(j)) = 1
                     /\ RepliesBy(j)[1].post.message = r.Text
                     /\ RepliesBy(j)[1].post.channel_id = cur.ChannelId

\* C19 witness: one extended handler returned an image with a text and got one
\* reply with that text; the other returned neither image nor text and got none.
C19_Witness ==
  /\ stage = "done"
  /\ Dispatched
  /\ \E j \in 1..Len(invoked) :
       /\ invoked[j].kind = "extended"
       /\ invoked[j].image
       /\ invoked[j].ret # << >>
       /\ Len(RepliesBy(j)) = 1
       /\ RepliesBy(j)[1].post.message = invoked[j].ret
  /\ \E j \in 1..Len(invoked) :
       /\ invoked[j].kind = "extended"
       /\ ~invoked[j].nil
       /\ ~invoked[j].image
       /\ invoked[j].ret = << >>
       /\ RepliesBy(j) = << >>

\* The place of each kind of handler in the fixed order of the stages.
Rank(kind) ==
  CASE kind = "exact" -> 1
    [] kind = "catchall" -> 2
    [] kind = "extended" -> 3
    [] kind = "command" -> 4
    [] OTHER -> 5

\* The position of a file id among the post's attachments.
FilePos(fileId) == CHOOSE k \in 1..Len(cur.FileIds) : cur.FileIds[k] = fileId

\* Invocation v comes before invocation w in the order of the stages and,
\* within a stage, of the registrations (and of the attachments).
Before(v, w) ==
  \/ Rank(v.kind) < Rank(w.kind)
  \/ /\ v.kind = w.kind
     /\ v.kind \in {"catchall", "extended"}
     /\ v.idx < w.idx
  \/ /\ v.kind = "image"
     /\ w.kind = "image"
     /\ \/ FilePos(v.file) < FilePos(w.file)
        \/ v.file = w.file /\ v.idx < w.idx

\* C20: the invocations made for a post follow the order exact, catchall,
\* extended, command, attachments, and within a stage the registration order;
\* the replies are emitted in the order of the invocations they answer; and at
\* the end every stage has run, whatever the earlier stages matched.
C20_StageOrder ==
  Dispatched =>
    /\ \A i \in 1..Len(invoked), j \in 1..Len(invoked) :
         i < j => Before(invoked[i], invoked[j])
    /\ \A i \in 1..Len(replies), j \in 1..Len(replies) :
         i < j => replies[i].by < replies[j].by
    /\ stage = "done" =>
         /\ Len(OfKind("exact")) = (IF cur.Message \in DOMAIN Handlers THEN 1 ELSE 0)
         /\ Len(OfKind("catchall")) = reg.catchall
         /\ Len(OfKind("extended")) = reg.extended
         /\ Len(downloads) = Len(cur.FileIds)
         /\ Len(OfKind("image")) =
              reg.image * Cardinality({k \in 1..Len(downloads) : downloads[k]})

\* C20 witness: one post got a reply from each of the five stages.
C20_Witness ==
  /\ stage = "done"
  /\ Dispatched
  /\ Len(RepliesOf("exact")) = 1
  /\ Len(RepliesOf("catchall")) >= 1
  /\ Len(RepliesOf("extended")) >= 1
  /\ Len(RepliesOf("command")) = 1
  /\ Len(RepliesOf("image")) >= 2

\* C21: SendWithOptions with a channel override posts to the overriding
\* channel; with no override it posts to the adapter's DefaultChannel, as Send
\* does.
C21_OverrideHonoured ==
  (lastSend.called /\ lastSend.via \in {"Send", "SendWithOptions"}) =>
    /\ lastSend.override # "" =>
         /\ Len(lastSend.posts) = 1
         /\ lastSend.posts[1].channel_id = lastSend.override
    /\ (lastSend.override = "" /\ lastSend.dflt # "") =>
         /\ Len(lastSend.posts) = 1
         /\ lastSend.posts[1].channel_id = lastSend.dflt

\* The event in hand is one the claim has dropped: another event type, or a
\* post payload that is missing, not a string, or not the JSON of a post.
Malformed ==
  /\ cur # NoEvent
  /\ cur.Event # "posted" \/ cur.Data \in {"missing", "notstring", "badjson"}

\* C22: an event that is not "posted", or whose post is missing, not a string
\* or not decodable, invokes no handler and gets no reply, and after it the
\* loop comes to read again unless the stop signal is given.
C22_DroppedEvents ==
  /\ []((stage # "none" /\ Malformed) => (invoked = << >> /\ replies = << >>))
  /\ (pmPc = "dispatch" /\ Malformed) ~> (pmPc = "read" \/ stopChan = "closed")

\* C22 witness: the second event the loop read is a "posted" event whose post
\* does not decode; it has been handled to the end with nothing invoked.
C22_Witness ==
  /\ EventsRead = 2
  /\ pmPc = "dispatch"
  /\ stage = "done"
  /\ cur.Event = "posted"
  /\ cur.Data = "badjson"
  /\ invoked = << >>
  /\ closeCalls = 0

\* A constructor has failed in this run of sendmsg.
ConstructorFailed == \E i \in 1..Len(calls) : calls[i].op = "log.Fatal"

\* C23: in sendmsg, once a constructor has failed the process has terminated
\* there: the failure is the last call on record, so no later platform was
\* registered, and the registry send was not called; and whenever the registry
\* send was called, failed or not, Run has returned normally.
C23_ConstructorErrorIsFatal ==
  entry = "sendmsg" =>
    /\ ConstructorFailed =>
         /\ cmdPc = "fatal"
         /\ calls[Len(calls)].op = "log.Fatal"
         /\ ~lastBroadcast.called
    /\ lastBroadcast.called => cmdPc = "exited"

\* C23 witness: sendmsg all registered Discord, then Mattermost's constructor
\* failed: the process is gone and nothing was sent, on Discord either.
C23_Witness ==
  /\ entry = "sendmsg"
  /\ args.platform = "all"
  /\ cmdPc = "fatal"
  /\ MessagePlatforms = <<"discord">>
  /\ calls = <<Call("RegisterPassiveMessagePlatform", "discord"),
               Call("log.Fatal", "mattermost")>>
  /\ Configured("irc")
  /\ ~lastBroadcast.called

\* C24: once Close() has returned, the loop has dispatched at most one event
\* more than it had by then, and none at all when ProcessMessages() had not
\* been started by then.
C24_StopWinsOverRead ==
  closeReturn.returned =>
    /\ EventsRead - closeReturn.events <= 1
    /\ closeReturn.pm = "idle" => EventsRead = 0

\* C24 witness: Close() returned while a read was in flight; that read gave one
\* more event, which was dispatched, and then the loop saw the stop signal and
\* returned.
C24_Witness ==
  /\ closeReturn.returned
  /\ closeReturn.pm = "read"
  /\ EventsRead = closeReturn.events + 1
  /\ LastRead = "event"
  /\ pmPc = "returned"

\* C25: every reply sent for a post, in every stage, goes to the channel of
\* that post, whatever the adapter's DefaultChannel is.
C25_ReplyChannel ==
  Dispatched =>
    \A i \in 1..Len(replies) : replies[i].post.channel_id = cur.ChannelId

\* C25 witness: a post in a channel other than the DefaultChannel got a reply
\* from each of the five stages, all of them in its own channel.
C25_Witness ==
  /\ stage = "done"
  /\ Dispatched
  /\ cur.ChannelId # DefaultChannel["mattermost"]
  /\ DefaultChannel["mattermost"] # ""
  /\ \A k \in {"exact", "catchall", "extended", "command", "image"} :
       /\ Len(RepliesOf(k)) >= 1
       /\ RepliesOf(k)[1].post.channel_id = cur.ChannelId

====
